---- MODULE Spec2Model ----
(***************************************************************************)
(* Model of auto_coder (src/src/auto_coder).                               *)
(*   Spec          agent.py: Agent.add_task, Agent._resolve_order and      *)
(*                 Agent.run, with run_pipeline as a black box that        *)
(*                 returns success, returns failure or raises.             *)
(*   SpecPipeline  pipeline.py: the loop of run_pipeline, with the sandbox *)
(*                 and repair_code as black boxes.                         *)
(*   SpecDiagnose  diagnosis.py: diagnose applied to bounded outcomes.     *)
(*   SpecRepair    repair.py: repair_code and repair_code_with_cli, with   *)
(*                 the built-in handlers and the external process as      *)
(*                 black boxes.                                            *)
(***************************************************************************)
EXTENDS Integers, Sequences, FiniteSets, TLC

(* ---------------------------------------------------------------------- *)
(* Bounds of the model                                                    *)
(* ---------------------------------------------------------------------- *)

\* number of distinct task ids a caller may use
NumIds == 3
\* total number of dependency entries over all registered tasks
MaxEdges == 2
\* number of distinct source texts generate_code and repair_code produce
NumSources == 2
\* largest max_iterations a caller of run_pipeline passes
MaxIterations == 3
\* number of calls of run() on the same Agent; the model follows the Agent
\* up to the end of the last of them
MaxRuns == 2

TaskIds == 1..NumIds

\* the ids add_task refuses: "" and a string of white space only
EmptyId == 0
SpacesId == -1
BlankIds == {EmptyId, SpacesId}

(* ---------------------------------------------------------------------- *)
(* TaskPriority, TaskStatus, error messages                               *)
(* ---------------------------------------------------------------------- *)

LOW == 1
NORMAL == 2
HIGH == 3
Priorities == {LOW, NORMAL, HIGH}

PENDING == "pending"
RUNNING == "running"
COMPLETED == "completed"
FAILED == "failed"
SKIPPED == "skipped"

\* error_message values: the fixed text, followed by the id formatted into it
NoMessage == <<"None">>
NotFoundMessage(dep_id) == <<"Dependency not found", dep_id>>
DepFailedMessage == <<"Skipped because a dependency failed">>
PipelineFailedMessage == <<"Pipeline did not succeed">>
ExceptionMessage == <<"str(exc)">>

\* the ValueError of add_task: the fixed text, followed by the id formatted
\* into it
NoError == <<"none">>
EmptyIdError == <<"task_id must not be empty">>
DuplicateIdError(task_id) == <<"Duplicate task_id", task_id>>

\* what one call of run_pipeline can do
Outcomes == {"success", "failure", "exception"}

VARIABLES
    tasks,      \* Agent._tasks: the TaskInfo records in insertion order
    pc,         \* where the caller is: idle (after __init__ or add_task), kahn,
                \* exec, pipeline (inside run), returned, raised (run just ended)
    in_degree,  \* _resolve_order: in_degree
    queue,      \* _resolve_order: queue
    order,      \* _resolve_order: order, then run(): order
    visited,    \* _resolve_order: visited
    remaining,  \* ids named by the ValueError of _resolve_order
    idx,        \* run(): position of the for loop in order
    invoked,    \* ids run_pipeline was called for during the current run()
    wasRunning, \* ids that were set to RUNNING during the current run()
    runs,       \* number of run() calls started
    add_error,  \* what the last add_task call raised, with the id it was given
    excepted    \* ids whose run_pipeline raised during the current run()

\* run_pipeline (pipeline.py)
VARIABLES
    p_pc,            \* idle (not called), loop (top of the for loop), done,
                     \* raised (left by an exception)
    max_iterations,  \* the parameter of run_pipeline
    source,          \* run_pipeline: source
    iteration,       \* run_pipeline: the loop variable
    iterations,      \* run_pipeline: the list of IterationRecords
    pipeline_result, \* the PipelineResult returned
    executions,      \* number of execute_code calls made
    diagnoses,       \* number of diagnose calls made
    repairs,         \* number of repair_code calls made
    p_raised         \* the exception run_pipeline ended with, if any

\* diagnose (diagnosis.py)
VARIABLES
    d_pc,      \* called, returned (once), again (returned a second time)
    d_result,  \* the ExecutionResult handed to diagnose
    d_diag,    \* what diagnose returned
    d_first    \* what the first of two calls returned

\* repair_code and repair_code_with_cli (repair.py)
VARIABLES
    r_pc,        \* idle, then the step repair_code_with_cli is at, returned,
                 \* raised
    r_source,    \* the parameter source
    r_category,  \* diagnosis.error_category
    r_command,   \* the parameter repair_command
    r_builtin,   \* what the built-in handler returned, None if none was called
    r_pending,   \* the value of the return statement the finally clause
                 \* interrupts
    r_return,    \* what repair_code returned
    r_external,  \* number of external processes started
    r_failure,   \* how the external repair failed, "none" if it did not
    fs           \* the temporary directory and the files in it

\* _run_block_loop (markdown_processor.py)
VARIABLES
    b_pc,             \* idle, loop (top of the for loop), done, raised
    b_max_iterations, \* the parameter max_iterations
    b_original,       \* the parameter source as it was passed
    b_source,         \* the variable source
    b_iteration,      \* the loop variable
    b_executions,     \* number of execute_code calls made
    b_trace,          \* what each pass of the for loop found
    block_result      \* the BlockResult returned

\* SelfEvolvingOrchestrator.run (orchestrator.py)
VARIABLES
    o_pc,             \* idle, loop (the test of the while loop), done
    o_max_iterations, \* self.config.max_iterations
    o_program,        \* program['code']
    o_iteration,      \* the variable iteration
    o_executions,     \* number of self.execution.execute calls made
    o_repairs,        \* number of self.repair.repair calls made
    o_history,        \* the execution entries of self.history
    o_result          \* the dictionary returned

agentVars == <<tasks, pc, in_degree, queue, order, visited, remaining, idx,
               invoked, wasRunning, runs, add_error, excepted>>

pipelineVars == <<p_pc, max_iterations, source, iteration, iterations,
                  pipeline_result, executions, diagnoses, repairs, p_raised>>

diagnoseVars == <<d_pc, d_result, d_diag, d_first>>

repairVars == <<r_pc, r_source, r_category, r_command, r_builtin, r_pending,
                r_return, r_external, r_failure, fs>>

blockVars == <<b_pc, b_max_iterations, b_original, b_source, b_iteration,
               b_executions, b_trace, block_result>>

orchestratorVars == <<o_pc, o_max_iterations, o_program, o_iteration,
                      o_executions, o_repairs, o_history, o_result>>

loopVars == <<blockVars, orchestratorVars>>

vars == <<agentVars, pipelineVars, diagnoseVars, repairVars, loopVars>>

(* ---------------------------------------------------------------------- *)
(* Helpers on the registry                                                *)
(* ---------------------------------------------------------------------- *)

Range(s) == {s[i] : i \in 1..Len(s)}

\* ids registered, i.e. the keys of self._tasks
Registered == {tasks[i].task_id : i \in 1..Len(tasks)}

\* position of a registered id in insertion order
IndexOf(tid) == CHOOSE i \in 1..Len(tasks) : tasks[i].task_id = tid

\* self._tasks[tid]
Task(tid) == tasks[IndexOf(tid)]

\* dependency entries used so far
EdgeCount == LET RECURSIVE Sum(_)
                 Sum(i) == IF i = 0 THEN 0 ELSE Len(tasks[i].dependencies) + Sum(i - 1)
             IN Sum(Len(tasks))

\* all sequences over S of length at most n
SeqsUpTo(S, n) == UNION {[1..k -> S] : k \in 0..n}

\* run_pipeline has not been called
InitPipelineVars ==
    /\ p_pc = "idle"
    /\ max_iterations = 0
    /\ source = 0
    /\ iteration = 0
    /\ iterations = <<>>
    /\ pipeline_result = <<>>
    /\ executions = 0
    /\ diagnoses = 0
    /\ repairs = 0
    /\ p_raised = <<>>

\* diagnose has not been called
InitDiagnoseVars ==
    /\ d_pc = "idle"
    /\ d_result = <<>>
    /\ d_diag = <<>>
    /\ d_first = <<>>

\* no temporary directory exists
NoFiles ==
    [dir |-> FALSE, issue |-> FALSE, source_file |-> FALSE, content |-> <<>>,
     extra |-> FALSE]

\* repair_code has not been called
InitRepairVars ==
    /\ r_pc = "idle"
    /\ r_source = 0
    /\ r_category = "runtime"
    /\ r_command = <<>>
    /\ r_builtin = <<>>
    /\ r_pending = <<>>
    /\ r_return = <<>>
    /\ r_external = 0
    /\ r_failure = "none"
    /\ fs = NoFiles

InitBlockVars ==
    /\ b_pc = "idle"
    /\ b_max_iterations = 0
    /\ b_original = 0
    /\ b_source = 0
    /\ b_iteration = 0
    /\ b_executions = 0
    /\ b_trace = <<>>
    /\ block_result = <<>>

InitOrchestratorVars ==
    /\ o_pc = "idle"
    /\ o_max_iterations = 0
    /\ o_program = 0
    /\ o_iteration = 0
    /\ o_executions = 0
    /\ o_repairs = 0
    /\ o_history = <<>>
    /\ o_result = <<>>

Init ==
    /\ tasks = <<>>
    /\ pc = "idle"
    /\ in_degree = <<>>
    /\ queue = <<>>
    /\ order = <<>>
    /\ visited = {}
    /\ remaining = <<>>
    /\ idx = 0
    /\ invoked = {}
    /\ wasRunning = {}
    /\ runs = 0
    /\ add_error = NoError
    /\ excepted = {}
    /\ InitPipelineVars
    /\ InitDiagnoseVars
    /\ InitRepairVars
    /\ InitBlockVars
    /\ InitOrchestratorVars

\* the caller is between two calls on the Agent
Between == pc \in {"idle", "returned", "raised"}

(* ---------------------------------------------------------------------- *)
(* Agent.add_task                                                         *)
(* ---------------------------------------------------------------------- *)

\* the dependency lists a caller passes with task_id: every list the bound
\* allows, and the empty list only where add_task raises before reading it
DependencyLists(task_id) ==
    IF task_id \in Registered \cup BlankIds
    THEN {<<>>}
    ELSE SeqsUpTo(TaskIds, MaxEdges - EdgeCount)

\* str.strip on the ids of the model
Strip(task_id) == IF task_id \in BlankIds THEN EmptyId ELSE task_id

\* IsBlank without the strip: only "" is refused
IsBlankUnstripped(task_id) == task_id = EmptyId

\* line 145: not task_id or not task_id.strip()
IsBlank(task_id) == task_id = EmptyId \/ Strip(task_id) = EmptyId

\* lines 145-159: the two checks raise and leave self._tasks alone; the
\* locals of the run() that ended before the call are gone
AddTask(task_id, priority, dependencies) ==
    /\ Between
    /\ runs < MaxRuns
    /\ IF IsBlank(task_id)
       THEN /\ add_error' = EmptyIdError
            /\ UNCHANGED tasks
       ELSE IF task_id \in Registered
       THEN /\ add_error' = DuplicateIdError(task_id)
            /\ UNCHANGED tasks
       ELSE /\ add_error' = NoError
            /\ tasks' = Append(tasks, [task_id |-> task_id,
                                       priority |-> priority,
                                       dependencies |-> dependencies,
                                       status |-> PENDING,
                                       error_message |-> NoMessage])
    /\ pc' = "idle"
    /\ order' = <<>>
    /\ remaining' = <<>>
    /\ idx' = 0
    /\ invoked' = {}
    /\ wasRunning' = {}
    /\ excepted' = {}
    /\ UNCHANGED <<in_degree, queue, visited, runs>>
    /\ UNCHANGED <<pipelineVars, diagnoseVars, repairVars>>
    /\ UNCHANGED loopVars

(* ---------------------------------------------------------------------- *)
(* Agent._resolve_order                                                   *)
(* ---------------------------------------------------------------------- *)

\* the entries of deps that are no key of self._tasks, in list order
MissingDeps(deps, registered) ==
    LET Unknown(dep_id) == dep_id \notin registered
    IN SelectSeq(deps, Unknown)

\* ValidateTask that records the message and forgets to set the status
ValidateTaskKeepsStatus(t, registered) ==
    LET missing == MissingDeps(t.dependencies, registered)
    IN IF missing = <<>> THEN t
       ELSE [t EXCEPT !.error_message = NotFoundMessage(missing[Len(missing)])]

\* lines 183-194: a task with an unknown dependency id becomes SKIPPED; the
\* loop overwrites error_message for every missing entry, the last one stays
ValidateTask(t, registered) ==
    LET missing == MissingDeps(t.dependencies, registered)
    IN IF missing = <<>> THEN t
       ELSE [t EXCEPT !.status = SKIPPED,
                      !.error_message = NotFoundMessage(missing[Len(missing)])]

Validated(ts) ==
    LET registered == {ts[i].task_id : i \in 1..Len(ts)}
    IN [i \in 1..Len(ts) |-> ValidateTask(ts[i], registered)]

\* number of entries of deps that satisfy "dep_id in in_degree"
CountRegistered(deps, registered) ==
    Cardinality({i \in 1..Len(deps) : deps[i] \in registered})

\* lines 197-203: one increment per dependency entry of a task not SKIPPED
InitialInDegree(ts) ==
    LET registered == {ts[i].task_id : i \in 1..Len(ts)}
    IN [tid \in registered |->
          LET t == ts[CHOOSE i \in 1..Len(ts) : ts[i].task_id = tid]
          IN IF t.status = SKIPPED THEN 0
             ELSE CountRegistered(t.dependencies, registered)]

\* priority of a registered id in the registry ts
PriorityIn(ts, tid) ==
    ts[CHOOSE i \in 1..Len(ts) : ts[i].task_id = tid].priority

\* a sort that leaves the list as it is
Unsorted(ts, q) == q

\* list.sort / sorted with key = priority value, reverse = True: stable, so
\* ids of equal priority keep the relative position they had in q
RECURSIVE InsertByPriority(_, _, _)
InsertByPriority(ts, tid, sorted) ==
    IF sorted = <<>> THEN <<tid>>
    ELSE IF PriorityIn(ts, Head(sorted)) >= PriorityIn(ts, tid)
         THEN <<Head(sorted)>> \o InsertByPriority(ts, tid, Tail(sorted))
         ELSE <<tid>> \o sorted

RECURSIVE SortByPriority(_, _)
SortByPriority(ts, q) ==
    IF q = <<>> THEN <<>>
    ELSE InsertByPriority(ts, q[Len(q)],
                          SortByPriority(ts, SubSeq(q, 1, Len(q) - 1)))

\* the ids of the tasks of ts at the positions in S, in insertion order
RECURSIVE IdsAt(_, _, _)
IdsAt(ts, S, i) ==
    IF i > Len(ts) THEN <<>>
    ELSE (IF i \in S THEN <<ts[i].task_id>> ELSE <<>>) \o IdsAt(ts, S, i + 1)

\* SeedQueue without the test "deg == 0": every task not SKIPPED is seeded
SeedQueueAnyDegree(ts, deg) ==
    LET ready == {i \in 1..Len(ts) : ts[i].status # SKIPPED}
    IN SortByPriority(ts, IdsAt(ts, ready, 1))

\* lines 206-211: the zero-in-degree tasks that are not SKIPPED, by priority
SeedQueue(ts, deg) ==
    LET ready == {i \in 1..Len(ts) :
                     deg[ts[i].task_id] = 0 /\ ts[i].status # SKIPPED}
    IN SortByPriority(ts, IdsAt(ts, ready, 1))

\* lines 223-227: other is a dependent of tid whose in-degree is decreased
IsDependent(other, tid) ==
    /\ other.status # SKIPPED
    /\ tid \in Range(other.dependencies)

\* lines 223-229: in_degree after the for loop over self._tasks.values()
Decreased(ts, deg, tid) ==
    [o \in DOMAIN deg |->
        IF \E i \in 1..Len(ts) : ts[i].task_id = o /\ IsDependent(ts[i], tid)
        THEN deg[o] - 1 ELSE deg[o]]

\* lines 228-229: the dependents that reached in-degree 0, in insertion order
NewlyReady(ts, deg, tid) ==
    LET hit == {i \in 1..Len(ts) :
                   IsDependent(ts[i], tid) /\ deg[ts[i].task_id] - 1 = 0}
    IN IdsAt(ts, hit, 1)

\* Remaining that never reports a task
RemainingNone(ts, deg) == <<>>

\* lines 237-240: ids with in-degree left that are not SKIPPED
Remaining(ts, deg) ==
    LET left == {i \in 1..Len(ts) :
                    deg[ts[i].task_id] > 0 /\ ts[i].status # SKIPPED}
    IN IdsAt(ts, left, 1)

\* run() is called: lines 258-260 and _resolve_order lines 182-213
RunStart ==
    /\ Between
    /\ runs < MaxRuns
    /\ runs' = runs + 1
    /\ tasks' = Validated(tasks)
    /\ in_degree' = InitialInDegree(tasks')
    /\ queue' = SeedQueue(tasks', in_degree')
    /\ order' = <<>>
    /\ visited' = {}
    /\ remaining' = <<>>
    /\ idx' = 0
    /\ invoked' = {}
    /\ wasRunning' = {}
    /\ add_error' = NoError
    /\ excepted' = {}
    /\ pc' = "kahn"
    /\ UNCHANGED <<pipelineVars, diagnoseVars, repairVars>>
    /\ UNCHANGED loopVars

\* one iteration of "while queue" (lines 215-234)
KahnStep ==
    /\ pc = "kahn"
    /\ queue # <<>>
    /\ LET tid == Head(queue)
       IN IF tid \in visited
          THEN /\ queue' = Tail(queue)
               /\ UNCHANGED <<order, visited, in_degree>>
          ELSE /\ visited' = visited \cup {tid}
               /\ order' = Append(order, tid)
               /\ in_degree' = Decreased(tasks, in_degree, tid)
               /\ queue' = SortByPriority(tasks,
                              Tail(queue) \o NewlyReady(tasks, in_degree, tid))
    /\ UNCHANGED <<tasks, pc, remaining, idx, invoked, wasRunning, runs>>
    /\ UNCHANGED <<add_error, excepted, pipelineVars, diagnoseVars, repairVars>>
    /\ UNCHANGED loopVars

\* the queue is empty and tasks are left over: lines 237-244, the ValueError
\* leaves run() at line 260
KahnRaise ==
    /\ pc = "kahn"
    /\ queue = <<>>
    /\ Remaining(tasks, in_degree) # <<>>
    /\ remaining' = Remaining(tasks, in_degree)
    /\ pc' = "raised"
    /\ in_degree' = <<>>
    /\ order' = <<>>
    /\ visited' = {}
    /\ UNCHANGED <<tasks, queue, idx, invoked, wasRunning, runs>>
    /\ UNCHANGED <<add_error, excepted, pipelineVars, diagnoseVars, repairVars>>
    /\ UNCHANGED loopVars

\* the queue is empty and nothing is left: line 246, run() goes on at line 263
KahnReturn ==
    /\ pc = "kahn"
    /\ queue = <<>>
    /\ Remaining(tasks, in_degree) = <<>>
    /\ pc' = "exec"
    /\ idx' = 1
    /\ in_degree' = <<>>
    /\ visited' = {}
    /\ UNCHANGED <<tasks, queue, order, remaining, invoked, wasRunning, runs>>
    /\ UNCHANGED <<add_error, excepted, pipelineVars, diagnoseVars, repairVars>>
    /\ UNCHANGED loopVars

(* ---------------------------------------------------------------------- *)
(* Agent.run                                                              *)
(* ---------------------------------------------------------------------- *)

SetTask(ts, tid, status, message) ==
    [i \in 1..Len(ts) |->
        IF ts[i].task_id = tid
        THEN [ts[i] EXCEPT !.status = status, !.error_message = message]
        ELSE ts[i]]

\* DepsOk without the check: every task is run
DepsOkIgnored(t) == TRUE

\* DepsOk that stops at FAILED dependencies only: a SKIPPED one passes
DepsOkUnlessFailed(t) ==
    \A i \in 1..Len(t.dependencies) :
        t.dependencies[i] \in Registered
            => Task(t.dependencies[i]).status # FAILED

\* lines 269-273
DepsOk(t) ==
    \A i \in 1..Len(t.dependencies) :
        t.dependencies[i] \in Registered
            => Task(t.dependencies[i]).status = COMPLETED

\* lines 274-278: a dependency is not COMPLETED, the task is skipped
ExecSkip ==
    /\ pc = "exec"
    /\ idx <= Len(order)
    /\ ~DepsOk(Task(order[idx]))
    /\ tasks' = SetTask(tasks, order[idx], SKIPPED, DepFailedMessage)
    /\ idx' = idx + 1
    /\ UNCHANGED <<pc, in_degree, queue, order, visited, remaining,
                   invoked, wasRunning, runs>>
    /\ UNCHANGED <<add_error, excepted, pipelineVars, diagnoseVars, repairVars>>
    /\ UNCHANGED loopVars

\* lines 280-284: the task becomes RUNNING and run_pipeline is called
ExecStart ==
    /\ pc = "exec"
    /\ idx <= Len(order)
    /\ DepsOk(Task(order[idx]))
    /\ tasks' = SetTask(tasks, order[idx], RUNNING,
                        Task(order[idx]).error_message)
    /\ wasRunning' = wasRunning \cup {order[idx]}
    /\ invoked' = invoked \cup {order[idx]}
    /\ pc' = "pipeline"
    /\ UNCHANGED <<in_degree, queue, order, visited, remaining, idx, runs>>
    /\ UNCHANGED <<add_error, excepted, pipelineVars, diagnoseVars, repairVars>>
    /\ UNCHANGED loopVars

\* StatusAfter that forgets the status of a pipeline that did not succeed
StatusAfterFailureUnset(outcome) ==
    IF outcome = "success" THEN COMPLETED ELSE RUNNING

\* StatusAfter that forgets the status of a pipeline that succeeded
StatusAfterSuccessUnset(outcome) ==
    IF outcome = "success" THEN RUNNING ELSE FAILED

\* lines 292-303: the status a task gets when run_pipeline is over
StatusAfter(outcome) ==
    IF outcome = "success" THEN COMPLETED ELSE FAILED

\* MessageAfter that does not keep the text of the exception
MessageAfterTextLost(outcome, error_message) ==
    IF outcome = "success" THEN error_message ELSE PipelineFailedMessage

\* lines 292-303: the error_message a task gets when run_pipeline is over
MessageAfter(outcome, error_message) ==
    CASE outcome = "success" -> error_message
      [] outcome = "failure" -> PipelineFailedMessage
      [] outcome = "exception" -> ExceptionMessage

\* lines 290-304: run_pipeline returns or raises
PipelineEnd(outcome) ==
    /\ pc = "pipeline"
    /\ tasks' = SetTask(tasks, order[idx], StatusAfter(outcome),
                        MessageAfter(outcome, Task(order[idx]).error_message))
    /\ excepted' = IF outcome = "exception"
                   THEN excepted \cup {order[idx]}
                   ELSE excepted
    /\ idx' = idx + 1
    /\ pc' = "exec"
    /\ UNCHANGED <<in_degree, queue, order, visited, remaining,
                   invoked, wasRunning, runs>>
    /\ UNCHANGED <<add_error, pipelineVars, diagnoseVars, repairVars>>
    /\ UNCHANGED loopVars

\* lines 306-312: the for loop is over, run() returns the AgentResult
RunReturn ==
    /\ pc = "exec"
    /\ idx > Len(order)
    /\ pc' = "returned"
    /\ UNCHANGED <<tasks, in_degree, queue, order, visited, remaining, idx,
                   invoked, wasRunning, runs>>
    /\ UNCHANGED <<add_error, excepted, pipelineVars, diagnoseVars, repairVars>>
    /\ UNCHANGED loopVars

\* line 306: AgentResult.tasks, the TaskInfo objects of the registry in
\* insertion order
AgentResultTasks == [i \in 1..Len(tasks) |-> tasks[i]]

\* a count that leaves the skipped tasks out
CountStatusUnlessSkipped(ts, status) ==
    IF status = SKIPPED THEN 0
    ELSE Cardinality({i \in 1..Len(ts) : ts[i].status = status})

\* lines 64, 69, 74: sum(1 for t in self.tasks if t.status == status)
CountStatus(ts, status) ==
    Cardinality({i \in 1..Len(ts) : ts[i].status = status})

\* lines 62-64: AgentResult.completed_count
completed_count == CountStatus(AgentResultTasks, COMPLETED)

\* lines 67-69: AgentResult.failed_count
failed_count == CountStatus(AgentResultTasks, FAILED)

\* lines 72-74: AgentResult.skipped_count
skipped_count == CountStatus(AgentResultTasks, SKIPPED)

\* lines 77-80: AgentResult.all_succeeded
all_succeeded ==
    \A i \in 1..Len(AgentResultTasks) : AgentResultTasks[i].status = COMPLETED

Next ==
    \/ \E task_id \in TaskIds \cup BlankIds, priority \in Priorities :
         \E dependencies \in DependencyLists(task_id) :
            AddTask(task_id, priority, dependencies)
    \/ RunStart
    \/ KahnStep
    \/ KahnRaise
    \/ KahnReturn
    \/ ExecSkip
    \/ ExecStart
    \/ \E outcome \in Outcomes : PipelineEnd(outcome)
    \/ RunReturn

Spec == Init /\ [][Next]_vars

(* ---------------------------------------------------------------------- *)
(* ExecutionResult and diagnose (execution.py, diagnosis.py)              *)
(* ---------------------------------------------------------------------- *)

\* an Optional value: None, or the value wrapped
None == <<>>
Some(x) == <<x>>

\* "opt or default": the default replaces None and the empty value
OrElse(opt, empty, default) ==
    IF opt = None \/ opt[1] = empty THEN default ELSE opt[1]

\* the keys of the table of _categorize_error
CategorizedErrorTypes ==
    {"SyntaxError", "IndentationError", "TabError", "NameError",
     "AttributeError", "TypeError", "ValueError", "IndexError", "KeyError",
     "ZeroDivisionError", "RecursionError", "ImportError",
     "ModuleNotFoundError", "FileNotFoundError", "IOError", "PermissionError"}

\* error_type values: the keys of the table, an exception class outside it,
\* the empty string and None
ErrorTypes ==
    {Some(et) : et \in CategorizedErrorTypes \cup {"CustomError", ""}}
        \cup {None}

\* texts are sequences of words; the words that stand for a quoted
\* identifier, and the identifier inside the quotes
QuotedWords == {"'x'", "'total'"}
Unquote(w) == IF w = "'x'" THEN "x" ELSE "total"

\* the words that contain "argument"
ArgumentWords == {"argument", "arguments"}

\* error values: None, the empty text and texts that meet or miss the
\* patterns diagnose looks for
ErrorTexts ==
    {None,
     Some(<<>>),
     Some(<<"name", "'x'", "is", "not", "defined">>),
     Some(<<"name", "x", "is", "not", "defined">>),
     Some(<<"f()", "missing", "1", "required", "positional", "argument">>),
     Some(<<"unsupported", "operand", "type(s)">>),
     Some(<<"division", "by", "zero">>)}

\* the words that are decimal numbers, and their values
NumberWords == {"3", "7", "9"}
NumberOf(w) == CASE w = "3" -> 3 [] w = "7" -> 7 [] w = "9" -> 9

\* traceback_str values: None, the empty text, texts with one, several and
\* no "line <number>"
Tracebacks ==
    {None,
     Some(<<>>),
     Some(<<"Traceback", "File", "<string>", "line", "3", "in", "f">>),
     Some(<<"line", "x", "line", "7", "in", "g", "line", "9">>),
     Some(<<"no", "line", "here">>)}

\* every ExecutionResult diagnose is applied to (the fields it reads)
ExecutionResults ==
    [success : BOOLEAN, error_type : ErrorTypes, error : ErrorTexts,
     traceback_str : Tracebacks]

\* re.search(r'line (\d+)', traceback_str): the places where it matches
LineMatches(tb) ==
    {i \in 1..(Len(tb) - 1) : tb[i] = "line" /\ tb[i + 1] \in NumberWords}

\* _extract_line_number
ExtractLineNumber(tb) ==
    IF LineMatches(tb) = {} THEN None
    ELSE LET i == CHOOSE m \in LineMatches(tb) :
                      \A n \in LineMatches(tb) : m <= n
         IN Some(NumberOf(tb[i + 1]))

\* a table whose default is a category of its own
CategorizeErrorDefaultUnknown(error_type) ==
    CASE error_type \in {"SyntaxError", "IndentationError", "TabError"} -> "syntax"
      [] error_type \in {"NameError", "AttributeError"} -> "reference"
      [] error_type = "TypeError" -> "type"
      [] error_type = "ValueError" -> "value"
      [] error_type = "IndexError" -> "index"
      [] error_type = "KeyError" -> "key"
      [] error_type = "ZeroDivisionError" -> "arithmetic"
      [] error_type = "RecursionError" -> "recursion"
      [] error_type \in {"ImportError", "ModuleNotFoundError"} -> "import"
      [] error_type \in {"FileNotFoundError", "IOError", "PermissionError"} -> "io"
      [] OTHER -> "unknown"

\* _categorize_error
CategorizeError(error_type) ==
    CASE error_type \in {"SyntaxError", "IndentationError", "TabError"} -> "syntax"
      [] error_type \in {"NameError", "AttributeError"} -> "reference"
      [] error_type = "TypeError" -> "type"
      [] error_type = "ValueError" -> "value"
      [] error_type = "IndexError" -> "index"
      [] error_type = "KeyError" -> "key"
      [] error_type = "ZeroDivisionError" -> "arithmetic"
      [] error_type = "RecursionError" -> "recursion"
      [] error_type \in {"ImportError", "ModuleNotFoundError"} -> "import"
      [] error_type \in {"FileNotFoundError", "IOError", "PermissionError"} -> "io"
      [] OTHER -> "runtime"

\* re.search(r"name '(\w+)' is not defined", error_msg): the places where it
\* matches
NameMatches(msg) ==
    {i \in 1..(Len(msg) - 4) :
        /\ msg[i] = "name"
        /\ msg[i + 1] \in QuotedWords
        /\ msg[i + 2] = "is"
        /\ msg[i + 3] = "not"
        /\ msg[i + 4] = "defined"}

\* match.group(1) of the first match
MatchedName(msg) ==
    LET i == CHOOSE m \in NameMatches(msg) : \A n \in NameMatches(msg) : m <= n
    IN Unquote(msg[i + 1])

\* "argument" in error_msg
HasArgument(msg) == \E i \in 1..Len(msg) : msg[i] \in ArgumentWords

\* "unsupported operand" in error_msg
HasUnsupportedOperand(msg) ==
    \E i \in 1..(Len(msg) - 1) : msg[i] = "unsupported" /\ msg[i + 1] = "operand"

\* the final return of _identify_root_cause: f"{error_type}: {error_msg}"
PlainRootCause(error_type, error_msg) == <<error_type, ": ", error_msg>>

\* _identify_root_cause
IdentifyRootCause(error_type, error_msg) ==
    CASE error_type = "NameError" ->
             IF NameMatches(error_msg) # {}
             THEN <<"Variable or function is used but not defined",
                    MatchedName(error_msg)>>
             ELSE PlainRootCause(error_type, error_msg)
      [] error_type = "TypeError" ->
             IF HasArgument(error_msg)
             THEN <<"Function called with wrong number or type of arguments">>
             ELSE IF HasUnsupportedOperand(error_msg)
             THEN <<"Operation applied to incompatible types">>
             ELSE PlainRootCause(error_type, error_msg)
      [] error_type = "IndexError" -> <<"List index is out of the valid range">>
      [] error_type = "KeyError" -> <<"Dictionary key does not exist">>
      [] error_type = "ZeroDivisionError" -> <<"Division by zero encountered">>
      [] error_type = "SyntaxError" -> <<"Syntax error in the code: ", error_msg>>
      [] error_type = "RecursionError" ->
             <<"Infinite recursion detected - missing or incorrect base case">>
      [] error_type = "ValueError" -> <<"Invalid value: ", error_msg>>
      [] OTHER -> PlainRootCause(error_type, error_msg)

\* the final return of _suggest_fix
PlainSuggestion == <<"Review the error message and fix the code accordingly">>

\* _suggest_fix
SuggestFix(error_type, error_msg) ==
    CASE error_type = "NameError" ->
             IF NameMatches(error_msg) # {}
             THEN <<"Define before using it, or check for typos",
                    MatchedName(error_msg)>>
             ELSE PlainSuggestion
      [] error_type = "TypeError" ->
             IF HasArgument(error_msg)
             THEN <<"Check function signature and ensure correct number of arguments">>
             ELSE <<"Ensure operand types are compatible">>
      [] error_type = "IndexError" ->
             <<"Add bounds checking before accessing list elements">>
      [] error_type = "KeyError" ->
             <<"Use dict.get() or check key existence before access">>
      [] error_type = "ZeroDivisionError" ->
             <<"Add a check for zero before performing division">>
      [] error_type = "SyntaxError" ->
             <<"Review the code syntax near the reported line">>
      [] error_type = "RecursionError" ->
             <<"Add or fix the base case for recursion">>
      [] OTHER -> PlainSuggestion

\* diagnose that looks at the error instead of the success flag
DiagnoseByErrorField(result) ==
    IF result.error = None
    THEN None
    ELSE Some([error_category |-> CategorizeError(OrElse(result.error_type, "", "Unknown")),
               root_cause |-> <<>>,
               suggestion |-> PlainSuggestion,
               line_number |-> None])

\* diagnose that answers once for each module load: a later call finds the
\* answer used up
DiagnoseOnce(result) ==
    IF result.success \/ d_pc # "called"
    THEN None
    ELSE Some([error_category |-> CategorizeError(OrElse(result.error_type, "", "Unknown")),
               root_cause |-> <<"Unknown">>,
               suggestion |-> PlainSuggestion,
               line_number |-> None])

\* diagnose: None for a successful result, the Diagnosis otherwise
Diagnose(result) ==
    IF result.success
    THEN None
    ELSE LET error_type == OrElse(result.error_type, "", "Unknown")
             error_msg == OrElse(result.error, <<>>, <<>>)
             tb == OrElse(result.traceback_str, <<>>, <<>>)
         IN Some([error_category |-> CategorizeError(error_type),
                  root_cause |-> IdentifyRootCause(error_type, error_msg),
                  suggestion |-> SuggestFix(error_type, error_msg),
                  line_number |-> ExtractLineNumber(tb)])

\* diagnose is about to be called with some ExecutionResult
InitDiagnose ==
    /\ d_pc = "called"
    /\ d_result \in ExecutionResults
    /\ d_diag = None
    /\ d_first = None
    /\ tasks = <<>>
    /\ pc = "idle"
    /\ in_degree = <<>>
    /\ queue = <<>>
    /\ order = <<>>
    /\ visited = {}
    /\ remaining = <<>>
    /\ idx = 0
    /\ invoked = {}
    /\ wasRunning = {}
    /\ runs = 0
    /\ add_error = NoError
    /\ excepted = {}
    /\ InitPipelineVars
    /\ InitRepairVars
    /\ InitBlockVars
    /\ InitOrchestratorVars

\* diagnose(result) returns
DiagnoseReturn ==
    /\ d_pc = "called"
    /\ d_diag' = Diagnose(d_result)
    /\ d_pc' = "returned"
    /\ UNCHANGED <<d_result, d_first, agentVars, pipelineVars, repairVars>>
    /\ UNCHANGED loopVars

\* diagnose is called once more on a result with the same fields
DiagnoseAgain ==
    /\ d_pc = "returned"
    /\ d_first' = d_diag
    /\ d_diag' = Diagnose(d_result)
    /\ d_pc' = "again"
    /\ UNCHANGED <<d_result, agentVars, pipelineVars, repairVars>>
    /\ UNCHANGED loopVars

NextDiagnose == DiagnoseReturn \/ DiagnoseAgain

SpecDiagnose == InitDiagnose /\ [][NextDiagnose]_vars

(* ---------------------------------------------------------------------- *)
(* run_pipeline (pipeline.py)                                             *)
(* ---------------------------------------------------------------------- *)

\* the source texts generate_code and repair_code can produce; two texts are
\* identical when they are the same number
Sources == 0..(NumSources - 1)

\* the values a caller passes as max_iterations
IterationLimits == -1..MaxIterations

\* execute_code returns success (line 58-62, 73)
SuccessResult ==
    [success |-> TRUE, error_type |-> None, error |-> None,
     traceback_str |-> None]

\* execute_code returns the failure it caught (lines 46-53, 63-71)
FailureResult(error_type, error, traceback_str) ==
    [success |-> FALSE, error_type |-> Some(error_type), error |-> Some(error),
     traceback_str |-> Some(traceback_str)]

\* what one call of execute_code can return
SandboxOutcomes ==
    {SuccessResult,
     FailureResult("ZeroDivisionError", <<"division", "by", "zero">>,
                   <<"Traceback", "File", "<string>", "line", "3", "in", "f">>),
     FailureResult("NameError", <<"name", "'x'", "is", "not", "defined">>,
                   <<"line", "x", "line", "7", "in", "g", "line", "9">>),
     FailureResult("CustomError", <<>>, <<"no", "line", "here">>)}

\* the loop that runs one time more than max_iterations
InBudgetOneMore(i, n) == i <= n + 1

\* line 101: iteration is in range(1, max_iterations + 1)
InBudget(i, n) == 1 <= i /\ i <= n

\* the test of line 115 that never sees a success
SucceededNever(result) == FALSE

\* line 115: if result.success
Succeeded(result) == result.success

\* an IterationRecord that is always numbered 1
RecordUnnumbered(i, src, result) ==
    [iteration |-> 1, source_code |-> src, execution_result |-> result,
     diagnosis |-> None, repaired |-> FALSE]

\* lines 109-113: the IterationRecord of an attempt
Record(i, src, result) ==
    [iteration |-> i, source_code |-> src, execution_result |-> result,
     diagnosis |-> None, repaired |-> FALSE]

\* lines 52-99: run_pipeline is called; generate_code yields the first source
RunPipeline(n, generated) ==
    /\ p_pc = "idle"
    /\ max_iterations' = n
    /\ source' = generated
    /\ iterations' = <<>>
    /\ iteration' = 1
    /\ p_pc' = "loop"
    /\ UNCHANGED <<pipeline_result, executions, diagnoses, repairs, p_raised>>
    /\ UNCHANGED <<agentVars, diagnoseVars, repairVars>>
    /\ UNCHANGED loopVars

\* a record marked repaired whenever there is a diagnosis
RepairedWhenDiagnosed(diag, repaired_source, src) == diag # None

\* lines 134-144: repair_code is called if there is a diagnosis, and the
\* record is marked repaired if what it returns differs from the source
Repaired(diag, repaired_source, src) == diag # None /\ repaired_source # src

\* lines 101-151: one pass of the for loop; result is what execute_code
\* returns, repaired_source what repair_code returns
Iterate(result, repaired_source) ==
    /\ p_pc = "loop"
    /\ InBudget(iteration, max_iterations)
    /\ executions' = executions + 1
    /\ IF Succeeded(result)
       THEN /\ iterations' = Append(iterations, Record(iteration, source, result))
            /\ pipeline_result' =
                  Some([success |-> TRUE,
                        final_code |-> source,
                        iterations |-> iterations',
                        total_iterations |-> iteration,
                        final_result |-> Some(result)])
            /\ p_pc' = "done"
            /\ UNCHANGED <<source, iteration, diagnoses, repairs>>
       ELSE LET diag == Diagnose(result)
                changed == Repaired(diag, repaired_source, source)
            IN /\ diagnoses' = diagnoses + 1
               /\ repairs' = IF diag # None THEN repairs + 1 ELSE repairs
               /\ source' = IF changed THEN repaired_source ELSE source
               /\ iterations' =
                     Append(iterations,
                            [Record(iteration, source, result)
                                EXCEPT !.diagnosis = diag, !.repaired = changed])
               /\ iteration' = iteration + 1
               /\ UNCHANGED <<p_pc, pipeline_result>>
    /\ UNCHANGED <<max_iterations, p_raised>>
    /\ UNCHANGED <<agentVars, diagnoseVars, repairVars>>
    /\ UNCHANGED loopVars

\* what execute_code lets through: it catches Exception only (lines 44, 63),
\* so an exception that is not one leaves exec or eval and execute_code
SandboxErrors == {"SystemExit", "KeyboardInterrupt"}

\* a for loop that catches what execute_code raises
LoopCatchesAll(exc) == TRUE

\* lines 101-113: no try statement is around the call of execute_code
LoopCatches(exc) == FALSE

\* lines 101-106: a pass of the for loop in which execute_code raises exc
ExecuteRaises(exc) ==
    /\ p_pc = "loop"
    /\ InBudget(iteration, max_iterations)
    /\ executions' = executions + 1
    /\ IF LoopCatches(exc)
       THEN /\ iteration' = iteration + 1
            /\ UNCHANGED <<p_pc, p_raised>>
       ELSE /\ p_raised' = Some(exc)
            /\ p_pc' = "raised"
            /\ UNCHANGED iteration
    /\ UNCHANGED <<max_iterations, source, iterations, pipeline_result,
                   diagnoses, repairs>>
    /\ UNCHANGED <<agentVars, diagnoseVars, repairVars>>
    /\ UNCHANGED loopVars

\* lines 153-163: the for loop is over without a success
Exhausted ==
    /\ p_pc = "loop"
    /\ ~InBudget(iteration, max_iterations)
    /\ pipeline_result' =
          Some([success |-> FALSE,
                final_code |-> source,
                iterations |-> iterations,
                total_iterations |-> max_iterations,
                final_result |-> IF iterations # <<>>
                                 THEN Some(iterations[Len(iterations)].execution_result)
                                 ELSE None])
    /\ p_pc' = "done"
    /\ UNCHANGED <<max_iterations, source, iteration, iterations,
                   executions, diagnoses, repairs, p_raised>>
    /\ UNCHANGED <<agentVars, diagnoseVars, repairVars>>
    /\ UNCHANGED loopVars

NextPipeline ==
    \/ \E n \in IterationLimits, generated \in Sources : RunPipeline(n, generated)
    \/ \E result \in SandboxOutcomes, repaired_source \in Sources :
          Iterate(result, repaired_source)
    \/ \E exc \in SandboxErrors : ExecuteRaises(exc)
    \/ Exhausted

SpecPipeline == Init /\ [][NextPipeline]_vars

\* run_pipeline is sequential code: once called, it takes its next step
SpecPipelineFair == SpecPipeline /\ WF_vars(NextPipeline)

(* ---------------------------------------------------------------------- *)
(* repair_code and repair_code_with_cli (repair.py)                       *)
(* ---------------------------------------------------------------------- *)

\* the categories diagnose can put into a Diagnosis
ProducedCategories ==
    {CategorizeError(OrElse(et, "", "Unknown")) : et \in ErrorTypes}

\* the error_category values repair_code is called with: those of diagnose
\* and one no table knows
RepairCategories == ProducedCategories \cup {"unknown"}

\* a table with a handler for every category of diagnose
HandlerCategoriesOfDiagnose == ProducedCategories

\* lines 51-59: the keys of repair_handlers
HandlerCategories ==
    {"syntax", "reference", "type", "index", "key", "arithmetic", "recursion"}

\* the repair_command values: None, the empty string, a command template
RepairCommands == {None, Some(""), Some("cmd {issue_file} {source_file}")}

\* line 68 with a test for None only: the empty template counts as one
ConfiguredUnlessNone(command) == command # None

\* line 68: if repair_command
Configured(command) == command # None /\ command[1] # ""

\* lines 62-65 without the built-in stage
BuiltinIgnored(category, handled, src) == FALSE

\* lines 62-65: a handler exists and what it returns differs from the source
BuiltinChanged(category, handled, src) ==
    category \in HandlerCategories /\ handled # src

\* lines 27-71: repair_code up to its return or its call of
\* repair_code_with_cli; handled is what the handler returns if there is one
RepairCode(src, category, command, handled) ==
    /\ r_pc = "idle"
    /\ r_source' = src
    /\ r_category' = category
    /\ r_command' = command
    /\ r_builtin' = IF category \in HandlerCategories THEN Some(handled) ELSE None
    /\ IF BuiltinChanged(category, handled, src)
       THEN r_return' = Some(handled) /\ r_pc' = "returned"
       ELSE IF Configured(command)
       THEN r_return' = None /\ r_pc' = "mkdtemp"
       ELSE r_return' = Some(src) /\ r_pc' = "returned"
    /\ UNCHANGED <<r_pending, r_external, r_failure, fs>>
    /\ UNCHANGED <<agentVars, pipelineVars, diagnoseVars>>
    /\ UNCHANGED loopVars

\* line 101: tempfile.mkdtemp, outside the try statement
CliMkdtemp(ok) ==
    /\ r_pc = "mkdtemp"
    /\ IF ok
       THEN /\ fs' = [fs EXCEPT !.dir = TRUE]
            /\ r_pc' = "write"
            /\ UNCHANGED r_failure
       ELSE /\ r_failure' = "mkdtemp"
            /\ r_pc' = "raised"
            /\ UNCHANGED fs
    /\ UNCHANGED <<r_source, r_category, r_command, r_builtin, r_pending,
                   r_return, r_external>>
    /\ UNCHANGED <<agentVars, pipelineVars, diagnoseVars>>
    /\ UNCHANGED loopVars

\* what a failed step of the external repair returns: the file content
\* where there is one
OnFailureFileContent(src, content) == IF content = <<>> THEN Some(src) ELSE content

\* lines 134, 146, 149: return source
OnFailure(src, content) == Some(src)

\* lines 107-113: the issue file and the source file are written; failed
\* names the write that raises, left whether the file it was writing exists
CliWrite(failed, left) ==
    /\ r_pc = "write"
    /\ fs' = CASE failed = "none" ->
                    [fs EXCEPT !.issue = TRUE, !.source_file = TRUE,
                               !.content = Some(r_source)]
                [] failed = "issue" -> [fs EXCEPT !.issue = left]
                [] failed = "source" ->
                    [fs EXCEPT !.issue = TRUE, !.source_file = left]
    /\ IF failed = "none"
       THEN /\ r_pc' = "run"
            /\ UNCHANGED <<r_failure, r_pending>>
       ELSE /\ r_failure' = "write"
            /\ r_pending' = OnFailure(r_source, fs'.content)
            /\ r_pc' = "finally"
    /\ UNCHANGED <<r_source, r_category, r_command, r_builtin, r_return,
                   r_external>>
    /\ UNCHANGED <<agentVars, pipelineVars, diagnoseVars>>
    /\ UNCHANGED loopVars

\* two texts the process can leave in the source file beside a source: the
\* empty text and a text of white space only
EmptyText == -1
BlankText == -2

\* what the external process can do to the source file: leave it, remove
\* it, or write a text (an empty or blank one included) into it
FileEffects ==
    {<<"keep">>, <<"remove">>}
        \cup {<<"write", Some(c)>> : c \in Sources \cup {EmptyText, BlankText}}

\* how subprocess.run ends: exit code zero, another exit code, the timeout,
\* or an exception before a process runs
Exits == {"zero", "nonzero", "timeout", "exception"}

\* the files after the process has run
AfterProcess(files, effect, extra) ==
    CASE effect[1] = "keep" -> [files EXCEPT !.extra = extra]
      [] effect[1] = "remove" ->
            [files EXCEPT !.source_file = FALSE, !.content = <<>>,
                          !.extra = extra]
      [] effect[1] = "write" ->
            [files EXCEPT !.source_file = TRUE, !.content = effect[2],
                          !.extra = extra]

\* lines 116-134, 144-149: the command runs; effect is what it does to the
\* source file, extra whether it leaves a file of its own in the directory
CliRun(exit, effect, extra) ==
    /\ r_pc = "run"
    /\ IF exit = "exception"
       THEN UNCHANGED <<fs, r_external>>
       ELSE /\ fs' = AfterProcess(fs, effect, extra)
            /\ r_external' = r_external + 1
    /\ IF exit = "zero"
       THEN /\ r_pc' = "read"
            /\ UNCHANGED <<r_failure, r_pending>>
       ELSE /\ r_failure' = exit
            /\ r_pending' = OnFailure(r_source, fs'.content)
            /\ r_pc' = "finally"
    /\ UNCHANGED <<r_source, r_category, r_command, r_builtin, r_return>>
    /\ UNCHANGED <<agentVars, pipelineVars, diagnoseVars>>
    /\ UNCHANGED loopVars

\* a read-back that returns whatever the file holds
ReadBackAnyContent(src, content) == content

\* lines 140-142: the text read is returned unless it is empty or strips
\* to the empty text; the source is returned then
ReadBack(src, content) ==
    IF content[1] # EmptyText /\ content[1] # BlankText
    THEN content
    ELSE Some(src)

\* lines 137-142, 147-149: the source file is read back; ok is false when
\* the read raises although the file exists
CliRead(ok) ==
    /\ r_pc = "read"
    /\ IF fs.source_file /\ ok
       THEN /\ r_pending' = ReadBack(r_source, fs.content)
            /\ UNCHANGED r_failure
       ELSE /\ r_failure' = "read"
            /\ r_pending' = OnFailure(r_source, fs.content)
    /\ r_pc' = "finally"
    /\ UNCHANGED <<r_source, r_category, r_command, r_builtin, r_return,
                   r_external, fs>>
    /\ UNCHANGED <<agentVars, pipelineVars, diagnoseVars>>
    /\ UNCHANGED loopVars

\* lines 150-160: the finally clause removes the two files, then the
\* directory, which os.rmdir refuses while a file is left in it; then the
\* interrupted return statement completes
CliFinally ==
    /\ r_pc = "finally"
    /\ fs' = [dir |-> fs.extra, issue |-> FALSE, source_file |-> FALSE,
              content |-> <<>>, extra |-> fs.extra]
    /\ r_return' = r_pending
    /\ r_pc' = "returned"
    /\ UNCHANGED <<r_source, r_category, r_command, r_builtin, r_pending,
                   r_external, r_failure>>
    /\ UNCHANGED <<agentVars, pipelineVars, diagnoseVars>>
    /\ UNCHANGED loopVars

NextRepair ==
    \/ \E src \in Sources, category \in RepairCategories,
           command \in RepairCommands, handled \in Sources :
          RepairCode(src, category, command, handled)
    \/ \E ok \in BOOLEAN : CliMkdtemp(ok)
    \/ \E failed \in {"none", "issue", "source"}, left \in BOOLEAN :
          CliWrite(failed, left)
    \/ \E exit \in Exits, effect \in FileEffects, extra \in BOOLEAN :
          CliRun(exit, effect, extra)
    \/ \E ok \in BOOLEAN : CliRead(ok)
    \/ CliFinally

SpecRepair == Init /\ [][NextRepair]_vars

(* ---------------------------------------------------------------------- *)
(* _run_block_loop (markdown_processor.py)                                *)
(* ---------------------------------------------------------------------- *)

\* line 151: iteration is in range(1, max_iterations + 1)
BlockInBudget(i, n) == 1 <= i /\ i <= n

\* a loop that goes on after every failed attempt
BlockRetriesAfterFailure(result, diag, repaired, src) == ~result.success

\* lines 160, 172, 177: the for loop goes on to its next pass only after a
\* failed attempt that was diagnosed and whose repair changed the source
BlockRetries(result, diag, repaired, src) ==
    ~result.success /\ diag # None /\ repaired # src

\* lines 162-169, 182-190, 193-200, 205-213: the BlockResult
BlockResult(src, success, n, result, diag) ==
    [original_code |-> b_original, final_code |-> src, success |-> success,
     iterations |-> n, execution_result |-> Some(result),
     last_diagnosis |-> diag]

\* lines 143-149: _run_block_loop is called with a normalized block
RunBlockLoop(n, src) ==
    /\ b_pc = "idle"
    /\ b_max_iterations' = n
    /\ b_original' = src
    /\ b_source' = src
    /\ b_iteration' = 1
    /\ b_pc' = "loop"
    /\ UNCHANGED <<b_executions, b_trace, block_result>>
    /\ UNCHANGED <<agentVars, pipelineVars, diagnoseVars, repairVars,
                   orchestratorVars>>

\* lines 151-200: one pass of the for loop; result is what execute_code
\* returns, repaired what repair_code returns
BlockIterate(result, repaired) ==
    /\ b_pc = "loop"
    /\ BlockInBudget(b_iteration, b_max_iterations)
    /\ b_executions' = b_executions + 1
    /\ LET diag == IF result.success THEN None ELSE Diagnose(result)
       IN /\ b_trace' = Append(b_trace,
                              [source_code |-> b_source,
                               success |-> result.success,
                               diagnosed |-> diag # None,
                               changed |-> diag # None /\ repaired # b_source])
          /\ IF BlockRetries(result, diag, repaired, b_source)
             THEN /\ b_source' = IF repaired # b_source THEN repaired
                                                        ELSE b_source
                  /\ b_iteration' = b_iteration + 1
                  /\ UNCHANGED <<b_pc, block_result>>
             ELSE /\ block_result' =
                        Some(BlockResult(b_source, result.success, b_iteration,
                                         result, diag))
                  /\ b_pc' = "done"
                  /\ UNCHANGED <<b_source, b_iteration>>
    /\ UNCHANGED <<b_max_iterations, b_original>>
    /\ UNCHANGED <<agentVars, pipelineVars, diagnoseVars, repairVars,
                   orchestratorVars>>

\* lines 202-213: the for loop is over; the source is executed once more
\* and that outcome is reported
BlockExhausted(last_result) ==
    /\ b_pc = "loop"
    /\ ~BlockInBudget(b_iteration, b_max_iterations)
    /\ b_executions' = b_executions + 1
    /\ block_result' =
          Some(BlockResult(b_source, last_result.success, b_max_iterations,
                           last_result,
                           IF ~last_result.success THEN Diagnose(last_result)
                                                   ELSE None))
    /\ b_pc' = "done"
    /\ UNCHANGED <<b_max_iterations, b_original, b_source, b_iteration,
                   b_trace>>
    /\ UNCHANGED <<agentVars, pipelineVars, diagnoseVars, repairVars,
                   orchestratorVars>>

\* lines 157, 203: execute_code raises exc; no try statement is around
\* either call
BlockExecuteRaises(exc) ==
    /\ b_pc = "loop"
    /\ b_executions' = b_executions + 1
    /\ b_pc' = "raised"
    /\ UNCHANGED <<b_max_iterations, b_original, b_source, b_iteration,
                   b_trace, block_result>>
    /\ UNCHANGED <<agentVars, pipelineVars, diagnoseVars, repairVars,
                   orchestratorVars>>

NextBlock ==
    \/ \E n \in IterationLimits, src \in Sources : RunBlockLoop(n, src)
    \/ \E result \in SandboxOutcomes, repaired \in Sources :
          BlockIterate(result, repaired)
    \/ \E last_result \in SandboxOutcomes : BlockExhausted(last_result)
    \/ \E exc \in SandboxErrors : BlockExecuteRaises(exc)

SpecBlock == Init /\ [][NextBlock]_vars

(* ---------------------------------------------------------------------- *)
(* SelfEvolvingOrchestrator.run (orchestrator.py, modules)                *)
(* ---------------------------------------------------------------------- *)

\* ExecutionModule._run_code: success is returncode == 0, output and error
\* are what the process wrote to stdout and stderr; a timeout and an
\* exception give no success, no output and a message as error
ProcessOutcomes ==
    {[success |-> TRUE, output |-> "out", error |-> ""],
     [success |-> TRUE, output |-> "out", error |-> "DeprecationWarning"],
     [success |-> FALSE, output |-> "", error |-> "Traceback"],
     [success |-> FALSE, output |-> "out", error |-> ""],
     [success |-> FALSE, output |-> "", error |-> "Execution timed out"]}

\* DiagnosisModule.diagnose, lines 29-36 and 65-74: needs_repair is False
\* only for a success with an empty error text
NeedsRepair(execution) == ~(execution.success /\ execution.error = "")

\* orchestrator.py line 88: while iteration < max_iterations
OrchestratorInBudget(i, n) == i < n

\* lines 52-86: run is called; the three first phases yield a program
OrchestratorRun(n, code) ==
    /\ o_pc = "idle"
    /\ o_max_iterations' = n
    /\ o_program' = code
    /\ o_iteration' = 0
    /\ o_pc' = "loop"
    /\ UNCHANGED <<o_executions, o_repairs, o_history, o_result>>
    /\ UNCHANGED <<agentVars, pipelineVars, diagnoseVars, repairVars,
                   blockVars>>

\* lines 88-135: one pass of the while loop; execution is what the process
\* did, repaired_code what the repair module answers
OrchestratorIterate(execution, repaired_code) ==
    /\ o_pc = "loop"
    /\ OrchestratorInBudget(o_iteration, o_max_iterations)
    /\ o_executions' = o_executions + 1
    /\ o_history' = Append(o_history, execution)
    /\ IF ~NeedsRepair(execution)
       THEN /\ o_result' = Some([success |-> TRUE,
                                 final_code |-> o_program,
                                 iterations |-> o_iteration + 1])
            /\ o_pc' = "done"
            /\ UNCHANGED <<o_program, o_iteration, o_repairs>>
       ELSE /\ o_repairs' = o_repairs + 1
            /\ o_program' = repaired_code
            /\ o_iteration' = o_iteration + 1
            /\ UNCHANGED <<o_pc, o_result>>
    /\ UNCHANGED o_max_iterations
    /\ UNCHANGED <<agentVars, pipelineVars, diagnoseVars, repairVars,
                   blockVars>>

\* lines 136-146: the else clause of the while loop
OrchestratorExhausted ==
    /\ o_pc = "loop"
    /\ ~OrchestratorInBudget(o_iteration, o_max_iterations)
    /\ o_result' = Some([success |-> FALSE,
                         final_code |-> o_program,
                         iterations |-> o_iteration])
    /\ o_pc' = "done"
    /\ UNCHANGED <<o_max_iterations, o_program, o_iteration, o_executions,
                   o_repairs, o_history>>
    /\ UNCHANGED <<agentVars, pipelineVars, diagnoseVars, repairVars,
                   blockVars>>

NextOrchestrator ==
    \/ \E n \in IterationLimits, code \in Sources : OrchestratorRun(n, code)
    \/ \E execution \in ProcessOutcomes, repaired_code \in Sources :
          OrchestratorIterate(execution, repaired_code)
    \/ OrchestratorExhausted

SpecOrchestrator == Init /\ [][NextOrchestrator]_vars

(* ---------------------------------------------------------------------- *)
(* Vocabulary of the properties                                           *)
(* ---------------------------------------------------------------------- *)

\* _resolve_order is at work or has returned its order to run()
HasOrder == pc \in {"kahn", "exec", "pipeline", "returned"}

\* _resolve_order has returned: order is the computed execution order
OrderComputed == pc \in {"exec", "pipeline", "returned"}

NoRepeats(s) == \A i, j \in 1..Len(s) : i # j => s[i] # s[j]

\* every id of s comes after all the ids in its dependency list
DepsPrecede(s) ==
    \A i \in 1..Len(s) :
        \A d \in Range(Task(s[i]).dependencies) :
            \E j \in 1..(i - 1) : s[j] = d

\* t3 (deps [t2]), t1 (no deps), t2 (deps [t1]) registered in that order,
\* and run() called once, after the three registrations
ChainScenario ==
    /\ runs = 1
    /\ Len(tasks) = 3
    /\ tasks[1].task_id = 3 /\ tasks[1].dependencies = <<2>>
    /\ tasks[2].task_id = 1 /\ tasks[2].dependencies = <<>>
    /\ tasks[3].task_id = 2 /\ tasks[3].dependencies = <<1>>

\* the registered ids reached from the ids of S along dependency lists
RECURSIVE DepsReached(_, _)
DepsReached(S, n) ==
    IF n = 0 THEN S
    ELSE DepsReached(S \cup {d \in Registered :
                                \E x \in S : d \in Range(Task(x).dependencies)},
                     n - 1)

\* b depends on a, directly or through a chain of registered tasks
DependsOn(b, a) ==
    a \in DepsReached(Range(Task(b).dependencies) \cap Registered, Len(tasks))

\* the error message of b is the "not found" message for an id of its list
NamesMissingDep(b) ==
    /\ Len(Task(b).error_message) = 2
    /\ Task(b).error_message[1] = "Dependency not found"
    /\ Task(b).error_message[2] \in Range(Task(b).dependencies)

\* t lies on a dependency cycle of registered tasks
OnCycle(t) == DependsOn(t, t)

HasCycle == \E t \in Registered : OnCycle(t)

\* t names an id in its dependency list that is not registered
Dangling(t) == MissingDeps(Task(t).dependencies, Registered) # <<>>

\* run() has ended, and add_task was not called since
RunEnded == pc \in {"returned", "raised"}

\* during run() no task was RUNNING and run_pipeline was never called
NothingExecuted ==
    /\ invoked = {}
    /\ wasRunning = {}
    /\ \A i \in 1..Len(tasks) : tasks[i].status # RUNNING

\* _resolve_order has just returned: the statuses are those it worked with
OrderJustComputed == pc = "exec" /\ idx = 1

\* the ids of the first n entries of order
Ordered(n) == {order[j] : j \in 1..n}

\* the tasks runnable once n tasks are ordered: not skipped, not yet ordered,
\* every id of the dependency list already ordered
RunnableAfter(n) ==
    {t \in Registered :
        /\ Task(t).status # SKIPPED
        /\ t \notin Ordered(n)
        /\ Range(Task(t).dependencies) \subseteq Ordered(n)}

(* ---------------------------------------------------------------------- *)
(* C1                                                                     *)
(* ---------------------------------------------------------------------- *)

\* C1: in the order built by _resolve_order every task appears at most once
\* and after every task of its dependency list, whatever the registration
\* order; registering t3 (deps [t2]), t1, t2 (deps [t1]) gives [t1, t2, t3].
C1_OrderRespectsDependencies ==
    /\ HasOrder => NoRepeats(order) /\ DepsPrecede(order)
    /\ OrderComputed /\ ChainScenario => order = <<1, 2, 3>>

C1_Witness == pc = "exec" /\ ChainScenario /\ order = <<1, 2, 3>>

(* ---------------------------------------------------------------------- *)
(* C2                                                                     *)
(* ---------------------------------------------------------------------- *)

\* C2: whenever a task is RUNNING (run_pipeline is at work for it), every
\* id of its dependency list is registered, is COMPLETED, and was run
\* earlier in this same call of run().
C2_RunningOnlyAfterDependenciesCompleted ==
    \A i \in 1..Len(tasks) :
        tasks[i].status = RUNNING =>
            \A d \in Range(tasks[i].dependencies) :
                /\ d \in Registered
                /\ Task(d).status = COMPLETED
                /\ d \in invoked

C2_Witness ==
    \E i \in 1..Len(tasks) :
        /\ tasks[i].status = RUNNING
        /\ tasks[i].dependencies # <<>>
        /\ pc = "pipeline"

(* ---------------------------------------------------------------------- *)
(* C3                                                                     *)
(* ---------------------------------------------------------------------- *)

\* C3 as stated: when run() has returned, every task that depends, directly
\* or through a chain, on a FAILED task is SKIPPED with the "dependency
\* failed" message, was never RUNNING and run_pipeline was not called for it.
C3_AsStated ==
    pc = "returned" =>
        \A a, b \in Registered :
            DependsOn(b, a) /\ Task(a).status = FAILED =>
                /\ Task(b).status = SKIPPED
                /\ Task(b).error_message = DepFailedMessage
                /\ b \notin wasRunning
                /\ b \notin invoked

\* C3 amended: such a task is SKIPPED, was never RUNNING in that run() and
\* run_pipeline was not called for it; its message is the "dependency
\* failed" message, or, when it was skipped for an unknown dependency id,
\* the "not found" message naming that id.
C3_FailedDependencySkipsDependents ==
    pc = "returned" =>
        \A a, b \in Registered :
            DependsOn(b, a) /\ Task(a).status = FAILED =>
                /\ Task(b).status = SKIPPED
                /\ Task(b).error_message = DepFailedMessage \/ NamesMissingDep(b)
                /\ b \notin wasRunning
                /\ b \notin invoked

\* a task skipped behind a chain: its FAILED ancestor is not in its own list
C3_Witness ==
    /\ pc = "returned"
    /\ \E a, b \in Registered :
          /\ DependsOn(b, a)
          /\ a \notin Range(Task(b).dependencies)
          /\ Task(a).status = FAILED
          /\ Task(b).status = SKIPPED
          /\ Task(b).error_message = DepFailedMessage

(* ---------------------------------------------------------------------- *)
(* C4                                                                     *)
(* ---------------------------------------------------------------------- *)

\* C4 as stated: when a task b names a registered task a in its dependency
\* list, a is SKIPPED, b itself names only registered ids and there is no
\* dependency cycle, run() returns and b is SKIPPED with the "dependency
\* failed" message, run_pipeline not having been called for b.
C4_AsStated ==
    RunEnded /\ ~HasCycle =>
        \A a, b \in Registered :
            /\ a \in Range(Task(b).dependencies)
            /\ Task(a).status = SKIPPED
            /\ ~Dangling(b)
            => /\ pc = "returned"
               /\ Task(b).status = SKIPPED
               /\ Task(b).error_message = DepFailedMessage
               /\ b \notin invoked

(* ---------------------------------------------------------------------- *)
(* C5                                                                     *)
(* ---------------------------------------------------------------------- *)

\* C5: from the validation of run() on, every task that names an unregistered
\* id in its dependency list is SKIPPED, its message is the "not found"
\* message for an unregistered id of its list, it is in neither the queue
\* nor the order, it was never RUNNING, run_pipeline was not called for it,
\* and it is not among the ids of the cycle error.
C5_DanglingDependencySkipsTask ==
    HasOrder \/ pc = "raised" =>
        \A t \in Registered :
            Dangling(t) =>
                /\ Task(t).status = SKIPPED
                /\ \E d \in Range(Task(t).dependencies) \ Registered :
                       Task(t).error_message = NotFoundMessage(d)
                /\ t \notin Range(order)
                /\ t \notin Range(queue)
                /\ t \notin wasRunning
                /\ t \notin invoked
                /\ t \notin Range(remaining)

\* run() returned normally with a dangling task skipped and another one run
C5_Witness ==
    /\ pc = "returned"
    /\ \E t, u \in Registered :
          /\ Dangling(t)
          /\ Task(t).status = SKIPPED
          /\ Task(u).status = COMPLETED
          /\ u \in invoked

(* ---------------------------------------------------------------------- *)
(* C6                                                                     *)
(* ---------------------------------------------------------------------- *)

\* C6 as stated: with a cycle among the registered tasks _resolve_order does
\* not return an order, and when the cycle error is raised no task was
\* RUNNING and run_pipeline was never called.
C6_AsStated ==
    /\ OrderComputed => ~HasCycle
    /\ pc = "raised" => NothingExecuted

\* C6 amended: with a cycle that has a member which is not SKIPPED,
\* _resolve_order does not return an order, and when the cycle error is
\* raised no task was RUNNING and run_pipeline was never called.
C6_CycleFailsBeforeExecution ==
    /\ OrderComputed =>
         ~\E t \in Registered : OnCycle(t) /\ Task(t).status # SKIPPED
    /\ pc = "raised" => NothingExecuted

\* the error is raised for a cycle while a task independent of it is waiting
C6_Witness ==
    /\ pc = "raised"
    /\ HasCycle
    /\ \E t \in Registered :
          /\ Task(t).dependencies = <<>>
          /\ Task(t).status = PENDING
          /\ \A u \in Registered : ~DependsOn(u, t)

(* ---------------------------------------------------------------------- *)
(* C7                                                                     *)
(* ---------------------------------------------------------------------- *)

\* no dependency list holds the same id twice
NoDuplicateEntries ==
    \A i \in 1..Len(tasks) : NoRepeats(tasks[i].dependencies)

NoneSkipped == \A i \in 1..Len(tasks) : tasks[i].status # SKIPPED

\* C7 as stated: the ids named by the cycle error are exactly the tasks on a
\* dependency cycle (checked where no task is skipped and no list repeats
\* an id).
C7_AsStated ==
    pc = "raised" /\ NoneSkipped /\ NoDuplicateEntries =>
        Range(remaining) = {t \in Registered : OnCycle(t)}

(* ---------------------------------------------------------------------- *)
(* C8                                                                     *)
(* ---------------------------------------------------------------------- *)

\* C8 as stated: on the first run(), when every dependency id is registered
\* and the relation has no cycle, no cycle error is raised and the computed
\* order holds every task exactly once.
C8_AsStated ==
    /\ runs = 1
    /\ \A t \in Registered : ~Dangling(t)
    /\ ~HasCycle
    => /\ pc # "raised"
       /\ OrderComputed => Range(order) = Registered /\ NoRepeats(order)

(* ---------------------------------------------------------------------- *)
(* C9                                                                     *)
(* ---------------------------------------------------------------------- *)

\* C9: in every computed order, the task at each position has the highest
\* priority among the tasks runnable once the earlier positions are ordered;
\* so of two tasks without dependencies the one of higher priority is first.
C9_HighestPriorityRunnableFirst ==
    OrderJustComputed =>
        /\ \A k \in 1..Len(order) :
              \A t \in RunnableAfter(k - 1) :
                  Task(order[k]).priority >= Task(t).priority
        /\ \A i, j \in 1..Len(order) :
              /\ Task(order[i]).dependencies = <<>>
              /\ Task(order[j]).dependencies = <<>>
              /\ Task(order[i]).priority > Task(order[j]).priority
              => i < j

\* a task that became runnable after its dependency was ordered is chosen
\* before a task of lower priority that was runnable from the start
C9_Witness ==
    /\ OrderJustComputed
    /\ \E k \in 2..Len(order) :
          /\ Task(order[k]).dependencies # <<>>
          /\ \E t \in RunnableAfter(k - 1) :
                /\ Task(t).dependencies = <<>>
                /\ Task(order[k]).priority > Task(t).priority

(* ---------------------------------------------------------------------- *)
(* C10                                                                    *)
(* ---------------------------------------------------------------------- *)

\* C10 as stated: in every computed order, the task at each position was
\* registered before every runnable task of the same priority.
C10_AsStated ==
    OrderJustComputed =>
        \A k \in 1..Len(order) :
            \A t \in RunnableAfter(k - 1) :
                Task(t).priority = Task(order[k]).priority
                    => IndexOf(order[k]) <= IndexOf(t)

(* ---------------------------------------------------------------------- *)
(* C11                                                                    *)
(* ---------------------------------------------------------------------- *)

\* no two entries of the registry carry the same id
UniqueIds == \A i, j \in 1..Len(tasks) : i # j => tasks[i].task_id # tasks[j].task_id

\* C11: an add_task call that raises (empty or blank id, id already
\* registered) leaves the registry as it was; a call that registers a task
\* appends one PENDING entry whose id is neither blank nor registered before,
\* and leaves the earlier entries alone; so ids stay unique and never blank.
C11_RejectedAddTaskLeavesRegistry ==
    [][/\ add_error' # NoError => tasks' = tasks
       /\ add_error'[1] = "Duplicate task_id" => add_error'[2] \in Registered
       /\ Len(tasks') # Len(tasks) =>
             /\ Len(tasks') = Len(tasks) + 1
             /\ SubSeq(tasks', 1, Len(tasks)) = tasks
             /\ tasks'[Len(tasks')].task_id \notin Registered \cup BlankIds
             /\ tasks'[Len(tasks')].status = PENDING
             /\ add_error' = NoError
       /\ UniqueIds'
       /\ \A i \in 1..Len(tasks') : tasks'[i].task_id \notin BlankIds]_vars

\* add_task has just refused the id of a task that already ran
C11_Witness ==
    /\ pc = "idle"
    /\ add_error[1] = "Duplicate task_id"
    /\ Task(add_error[2]).status = COMPLETED

(* ---------------------------------------------------------------------- *)
(* C12                                                                    *)
(* ---------------------------------------------------------------------- *)

\* position of an ordered id in order
PlaceOf(tid) == CHOOSE j \in 1..Len(order) : order[j] = tid

FinalStatuses == {COMPLETED, FAILED, SKIPPED}

\* C13: when run() returns, the result lists every registered task once, and
\* each of them is COMPLETED, FAILED or SKIPPED: none is PENDING or RUNNING.
C13_ResultIsComplete ==
    pc = "returned" =>
        /\ Len(AgentResultTasks) = Cardinality(Registered)
        /\ \A t \in Registered :
              \E i \in 1..Len(AgentResultTasks) :
                  /\ AgentResultTasks[i].task_id = t
                  /\ AgentResultTasks[i].status \in FinalStatuses

\* run() has returned a result in which the three final statuses occur
C13_Witness ==
    /\ pc = "returned"
    /\ \A st \in FinalStatuses :
          \E i \in 1..Len(AgentResultTasks) : AgentResultTasks[i].status = st

(* ---------------------------------------------------------------------- *)
(* C14                                                                    *)
(* ---------------------------------------------------------------------- *)

\* the status changes of the life cycle
AllowedChange(old, new) ==
    \/ new = old
    \/ old = PENDING /\ new \in {RUNNING, SKIPPED}
    \/ old = RUNNING /\ new \in {COMPLETED, FAILED}

\* C14 as stated: in every step of add_task and run(), the status of each
\* registered task stays as it is or moves along PENDING -> RUNNING ->
\* {COMPLETED, FAILED} or PENDING -> SKIPPED; a COMPLETED, FAILED or SKIPPED
\* task keeps its status for ever.
C14_AsStated ==
    [][\A i \in 1..Len(tasks) :
          AllowedChange(tasks[i].status, tasks'[i].status)]_vars

(* ---------------------------------------------------------------------- *)
(* C15                                                                    *)
(* ---------------------------------------------------------------------- *)

\* the ids whose status is RUNNING
RunningTasks == {t \in Registered : Task(t).status = RUNNING}

\* the task at place j of the order was dealt with during this run()
Processed(j) ==
    /\ Task(order[j]).status \in FinalStatuses
    /\ order[j] \in invoked \/ Task(order[j]).status = SKIPPED

Budget == IF max_iterations > 0 THEN max_iterations ELSE 0

\* at most max_iterations records and sandbox executions, one record for
\* each execution
WithinBudget ==
    /\ Len(iterations) <= Budget
    /\ executions <= Budget
    /\ Len(iterations) = executions - (IF p_raised = None THEN 0 ELSE 1)

SuccessAt(j) == iterations[j].execution_result.success

\* C17: the loop stops at the first success. No record but the last holds a
\* successful execution; one diagnosis and one repair were made for each
\* failed execution and none for a successful one; and when run_pipeline has
\* returned, success is true exactly when the last record is successful,
\* final_code is then the source of that record, and the result carries the
\* records of the loop.
C17_StopsAtFirstSuccess ==
    /\ \A j \in 1..(Len(iterations) - 1) : ~SuccessAt(j)
    /\ \A j \in 1..Len(iterations) :
          SuccessAt(j) => iterations[j].diagnosis = None /\ ~iterations[j].repaired
    /\ diagnoses = Cardinality({j \in 1..Len(iterations) : ~SuccessAt(j)})
    /\ repairs = diagnoses
    /\ p_pc = "done" =>
          /\ pipeline_result[1].iterations = iterations
          /\ pipeline_result[1].success <=>
                (iterations # <<>> /\ SuccessAt(Len(iterations)))
          /\ pipeline_result[1].success =>
                /\ pipeline_result[1].final_code =
                      iterations[Len(iterations)].source_code
                /\ pipeline_result[1].total_iterations = Len(iterations)
                /\ pipeline_result[1].final_result =
                      Some(iterations[Len(iterations)].execution_result)
    /\ p_pc = "loop" => iterations = <<>> \/ ~SuccessAt(Len(iterations))

\* run_pipeline has returned success after a failed attempt whose repair
\* changed the source, with budget left
C17_Witness ==
    /\ p_pc = "done"
    /\ pipeline_result[1].success
    /\ Len(iterations) = 2
    /\ max_iterations = MaxIterations
    /\ iterations[1].repaired
    /\ pipeline_result[1].final_code # iterations[1].source_code

(* ---------------------------------------------------------------------- *)
(* C18                                                                    *)
(* ---------------------------------------------------------------------- *)

\* the attempt at place j failed and repair_code returned its source as it was
RepairIdenticalAt(j) ==
    /\ ~SuccessAt(j)
    /\ iterations[j].diagnosis # None
    /\ ~iterations[j].repaired

\* C18 as stated: a failed attempt whose repair candidate is identical to
\* the source is the last one: no record is appended after it and
\* execute_code is not called again.
C18_AsStated ==
    \A j \in 1..Len(iterations) :
        RepairIdenticalAt(j) => j = Len(iterations) /\ executions = j

(* ---------------------------------------------------------------------- *)
(* C19                                                                    *)
(* ---------------------------------------------------------------------- *)

\* the attempt at place j failed and diagnose returned None for it
DiagnosisAbsentAt(j) == ~SuccessAt(j) /\ iterations[j].diagnosis = None

\* the case of C19 does not arise in run_pipeline: diagnose returns a
\* Diagnosis for every failed result (C20), so every failed record has one
EveryFailureDiagnosed ==
    \A j \in 1..Len(iterations) : ~DiagnosisAbsentAt(j)

(* ---------------------------------------------------------------------- *)
(* C20                                                                    *)
(* ---------------------------------------------------------------------- *)

\* the values of Diagnosis.error_category
Categories ==
    {"syntax", "reference", "type", "value", "index", "key", "arithmetic",
     "recursion", "import", "io", "runtime"}

\* d is a Diagnosis with its four fields filled in
IsDiagnosis(d) ==
    /\ d # None
    /\ DOMAIN d[1] = {"error_category", "root_cause", "suggestion", "line_number"}
    /\ d[1].error_category \in Categories
    /\ d[1].root_cause # <<>>
    /\ d[1].suggestion # <<>>
    /\ d[1].line_number = None \/ d[1].line_number[1] \in Nat

\* C20: diagnose returns None exactly when the success flag of the result is
\* true; for a failed result it returns a Diagnosis, whatever the error
\* type, the error text and the traceback are, None and empty included.
C20_DiagnoseNoneIffSuccess ==
    d_pc = "returned" =>
        /\ d_diag = None <=> d_result.success
        /\ ~d_result.success => IsDiagnosis(d_diag)

\* diagnose has returned a Diagnosis for a failed result without error type,
\* error text and traceback
C20_Witness ==
    /\ d_pc = "returned"
    /\ ~d_result.success
    /\ d_result.error_type = None
    /\ d_result.error = None
    /\ d_result.traceback_str = None
    /\ IsDiagnosis(d_diag)

(* ---------------------------------------------------------------------- *)
(* C21                                                                    *)
(* ---------------------------------------------------------------------- *)

RepairCalled == r_pc # "idle"

\* the built-in stage left the source as it was: no handler, or a handler
\* that returned its input
BuiltinUnchanged == r_builtin = None \/ r_builtin = Some(r_source)

\* repair_code has called repair_code_with_cli
CliCalled ==
    \/ r_pc \in {"mkdtemp", "write", "run", "read", "finally", "raised"}
    \/ r_pending # None

\* the failures of the external repair inside its try statement
CliFailures == {"write", "nonzero", "timeout", "exception", "read"}

\* C22: whenever the built-in handler of the category returns a text
\* different from the source, repair_code returns that text and neither
\* calls the external repair nor creates a file for it, also when a command
\* template is configured.
C22_BuiltinTakesPrecedence ==
    (RepairCalled /\ r_builtin # None /\ r_builtin # Some(r_source))
        => /\ r_pc = "returned"
           /\ r_return = r_builtin
           /\ ~CliCalled
           /\ r_external = 0
           /\ fs = NoFiles

\* a handler changed the source while a command template was configured
C22_Witness ==
    /\ r_pc = "returned"
    /\ r_builtin # None /\ r_builtin # Some(r_source)
    /\ r_command \notin {None, Some("")}
    /\ r_return = r_builtin

\* C23: a failure of the external repair (a write that raises, a non-zero
\* exit, the timeout, an exception at the run, a read that raises or finds
\* no file) is not raised: the call goes through its finally clause and
\* returns the original source, whatever the process wrote into the file.
C23_ExternalFailureReturnsSource ==
    r_failure \in CliFailures
        => /\ r_pc \in {"finally", "returned"}
           /\ r_pending = Some(r_source)
           /\ r_pc = "returned" => r_return = Some(r_source)

\* the process has rewritten the source file and then exited non-zero
C23_Witness ==
    /\ r_pc = "finally"
    /\ r_failure = "nonzero"
    /\ r_external = 1
    /\ fs.source_file /\ fs.content # None /\ fs.content # Some(r_source)
    /\ r_pending = Some(r_source)

\* C24 as stated: once the external repair has returned, the issue file,
\* the source file and their directory are gone.
C24_AsStated ==
    (r_pc = "returned" /\ CliCalled)
        => ~fs.dir /\ ~fs.issue /\ ~fs.source_file

\* C29 as stated: repair_code finds a handler for every category diagnose
\* can produce.
C29_AsStated ==
    (RepairCalled /\ r_category \in ProducedCategories) => r_builtin # None

\* C29: there is a handler for syntax, reference, type, index, key,
\* arithmetic and recursion and for no other category; for value, import,
\* io and runtime repair_code skips the built-in stage, so it calls the
\* external repair if a template is configured and returns the source
\* unchanged otherwise.
C29_HandlersForSevenCategories ==
    RepairCalled
        => /\ r_builtin # None
                <=> r_category \in {"syntax", "reference", "type", "index",
                                    "key", "arithmetic", "recursion"}
           /\ r_category \in {"value", "import", "io", "runtime"}
                => /\ r_builtin = None
                   /\ CliCalled \/ (r_pc = "returned"
                                      /\ r_return = Some(r_source))

\* an import failure finds no handler and comes back unrepaired
C29_Witness ==
    /\ r_pc = "returned"
    /\ r_category = "import"
    /\ r_builtin = None
    /\ ~CliCalled
    /\ r_return = Some(r_source)

\* C30: repair_code calls the external repair exactly when a non-empty
\* command template is given and the built-in stage left the source
\* unchanged; without a template and with the source unchanged it returns
\* the source, and no process runs and no file is made.
C30_ExternalExactlyWhenConfiguredAndUnchanged ==
    RepairCalled
        => /\ CliCalled
                <=> (r_command \notin {None, Some("")} /\ BuiltinUnchanged)
           /\ (r_command \in {None, Some("")} /\ BuiltinUnchanged)
                => /\ r_pc = "returned"
                   /\ r_return = Some(r_source)
                   /\ r_external = 0
                   /\ fs = NoFiles

\* the handler returned its input and the configured command has been run
C30_Witness ==
    /\ r_builtin = Some(r_source)
    /\ r_command \notin {None, Some("")}
    /\ r_external = 1

(* ---------------------------------------------------------------------- *)
(* Claims about the result of a run                                       *)
(* ---------------------------------------------------------------------- *)

\* C25: in the result of a run the counts of completed, failed and skipped
\* tasks add up to the number of registered tasks, and all_succeeded holds
\* exactly when no registered task has another status than COMPLETED: it
\* holds for a run without tasks and fails with one FAILED or SKIPPED task.
C25_CountsAddUp ==
    pc = "returned" =>
        /\ completed_count + failed_count + skipped_count
              = Cardinality(Registered)
        /\ all_succeeded <=> (\A t \in Registered : Task(t).status = COMPLETED)
        /\ Registered = {} => all_succeeded
        /\ (\E t \in Registered : Task(t).status \in {FAILED, SKIPPED})
              => ~all_succeeded

\* run() has returned one completed, one failed and one skipped task
C25_Witness ==
    /\ pc = "returned"
    /\ completed_count = 1 /\ failed_count = 1 /\ skipped_count = 1
    /\ ~all_succeeded

(* ---------------------------------------------------------------------- *)
(* Claims about the records and the errors of the loop                    *)
(* ---------------------------------------------------------------------- *)

\* the records are numbered 1, 2, ..., k in the order of the list
NumberedInOrder ==
    \A j \in 1..Len(iterations) : iterations[j].iteration = j

\* a step leaves the list of records alone or puts one record at its end
RecordsOnlyGrow ==
    \/ iterations' = iterations
    \/ /\ Len(iterations') = Len(iterations) + 1
       /\ SubSeq(iterations', 1, Len(iterations)) = iterations

\* a pass of the loop in which execute_code returned an outcome
PassReturned == executions' = executions + 1 /\ p_raised' = None

\* C26: every pass of the loop in which the sandbox returns an outcome,
\* success or failure, repaired or not, appends exactly one IterationRecord;
\* the records are numbered 1, 2, ..., k in list order, and no step removes
\* or reorders a record.
C26_OneRecordPerIteration ==
    /\ []NumberedInOrder
    /\ [][RecordsOnlyGrow]_vars
    /\ [][PassReturned => Len(iterations') = Len(iterations) + 1]_vars

\* two failed passes and a successful third have left three records
C26_Witness ==
    /\ p_pc = "done"
    /\ Len(iterations) = 3
    /\ ~iterations[1].execution_result.success
    /\ ~iterations[2].repaired
    /\ iterations[3].execution_result.success
    /\ iterations[3].iteration = 3

\* a pass of the loop in which execute_code was called and returned no
\* outcome to record
PassRaised == executions' = executions + 1 /\ iterations' = iterations

\* C27: when execute_code raises instead of returning an outcome, the loop
\* does not go on: run_pipeline ends with that exception, without a
\* PipelineResult and without a record for the pass.
C27_SandboxErrorPropagates ==
    /\ [](p_raised # None
            => /\ p_pc = "raised"
               /\ pipeline_result = None
               /\ p_raised[1] \in SandboxErrors
               /\ Len(iterations) = executions - 1)
    /\ [][PassRaised => (p_pc' = "raised" /\ p_raised' # None)]_vars
    /\ [][p_pc = "raised" => UNCHANGED pipelineVars]_vars

\* the second pass has been left by an exception of execute_code
C27_Witness ==
    /\ p_pc = "raised"
    /\ p_raised = Some("SystemExit")
    /\ Len(iterations) = 1
    /\ executions = 2
    /\ pipeline_result = None

(* ---------------------------------------------------------------------- *)
(* Claims about the categories of diagnose                                *)
(* ---------------------------------------------------------------------- *)

\* the enumeration of the specification, runtime standing for its
\* runtime-other
EnumeratedCategories ==
    {"syntax", "reference", "type", "index", "key", "arithmetic",
     "recursion", "import", "io", "runtime"}

\* the error kinds that are keys of the lookup table
InLookupTable(error_type) ==
    error_type # None /\ error_type[1] \in CategorizedErrorTypes

\* C28 as stated: the category of every Diagnosis is one of the ten
\* enumerated values, and every error kind outside the lookup table gets
\* the runtime category.
C28_AsStated ==
    (d_pc = "returned" /\ ~d_result.success)
        => /\ d_diag[1].error_category \in EnumeratedCategories
           /\ ~InLookupTable(d_result.error_type)
                 => d_diag[1].error_category = "runtime"

\* C28: the category of every Diagnosis is one of eleven values, the ten
\* enumerated ones and value, which is the category of ValueError alone;
\* every error kind outside the sixteen keys of the lookup table, a missing
\* or empty one included, gets the runtime category, and no key of the
\* table does.
C28_CategoryIsOneOfEleven ==
    (d_pc = "returned" /\ ~d_result.success)
        => /\ d_diag[1].error_category \in EnumeratedCategories \cup {"value"}
           /\ d_diag[1].error_category = "value"
                 <=> d_result.error_type = Some("ValueError")
           /\ d_diag[1].error_category = "runtime"
                 <=> ~InLookupTable(d_result.error_type)

\* diagnose has put a ValueError into the value category
C28_Witness ==
    /\ d_pc = "returned"
    /\ ~d_result.success
    /\ d_result.error_type = Some("ValueError")
    /\ d_diag[1].error_category = "value"

(* ---------------------------------------------------------------------- *)
(* Claims about the text read back from the external repair               *)
(* ---------------------------------------------------------------------- *)

\* the process has exited with code zero and the source file has been read
ReadBackDone == r_pc = "finally" /\ r_failure = "none"

PipelineReturned == p_pc = "done" /\ pipeline_result # None

\* the last record of the returned trace
LastRecord ==
    pipeline_result[1].iterations[Len(pipeline_result[1].iterations)]

\* C33 as stated: when run_pipeline returns, total_iterations is the number
\* of IterationRecords of the result, for every max_iterations.
C33_AsStated ==
    PipelineReturned
        => pipeline_result[1].total_iterations
              = Len(pipeline_result[1].iterations)

\* C34 as stated: when run_pipeline returns with at least one record,
\* final_code is the source attempted in the last record and final_result
\* is the outcome of that record.
C34_AsStated ==
    (PipelineReturned /\ pipeline_result[1].iterations # <<>>)
        => /\ pipeline_result[1].final_code = LastRecord.source_code
           /\ pipeline_result[1].final_result
                 = Some(LastRecord.execution_result)

\* C35: in the returned trace a record is marked repaired exactly when the
\* next record holds another source than it, and a successful record is
\* neither marked repaired nor given a diagnosis.
C35_RepairedIffSourceChanges ==
    PipelineReturned
        => LET its == pipeline_result[1].iterations
           IN /\ \A j \in 1..(Len(its) - 1) :
                    its[j].repaired
                        <=> its[j + 1].source_code # its[j].source_code
              /\ \A j \in 1..Len(its) :
                    its[j].execution_result.success
                        => ~its[j].repaired /\ its[j].diagnosis = None

\* a trace in which the first repair changed the source, the second did
\* not, and the third attempt succeeded
C35_Witness ==
    /\ PipelineReturned
    /\ Len(pipeline_result[1].iterations) = 3
    /\ pipeline_result[1].iterations[1].repaired
    /\ ~pipeline_result[1].iterations[2].repaired
    /\ pipeline_result[1].iterations[2].diagnosis # None
    /\ pipeline_result[1].iterations[3].execution_result.success

(* ---------------------------------------------------------------------- *)
(* Claims about a run() that raises                                       *)
(* ---------------------------------------------------------------------- *)

\* C36 as stated: a run() that ends with the dependency-cycle error leaves
\* every task with the status and the error message it had before the
\* call; before the first run() every task is PENDING without a message.
C36_AsStated ==
    (pc = "raised" /\ runs = 1)
        => \A i \in 1..Len(tasks) :
              /\ tasks[i].status = PENDING
              /\ tasks[i].error_message = NoMessage

(* ---------------------------------------------------------------------- *)
(* Claims about the Markdown block loop                                   *)
(* ---------------------------------------------------------------------- *)

\* _run_block_loop has returned a BlockResult
BlockReturned == b_pc = "done" /\ block_result # None

\* the pass of the for loop that ends it: a success, a failure without a
\* diagnosis, or a repair that left the source as it was
StoppingPass(j) ==
    b_trace[j].success \/ ~b_trace[j].diagnosed \/ ~b_trace[j].changed

\* C32: the iteration count of a BlockResult is never more than
\* max_iterations, and the for loop makes no pass after its first success,
\* its first failure without a diagnosis or its first repair that leaves
\* the source unchanged: such a pass is the last one, the loop has returned
\* and reports the number of that pass.
C32_BlockLoopStops ==
    /\ BlockReturned => block_result[1].iterations <= b_max_iterations
    /\ \A j \in 1..Len(b_trace) :
          StoppingPass(j)
              => /\ j = Len(b_trace)
                 /\ BlockReturned
                 /\ block_result[1].iterations = j
                 /\ block_result[1].success = b_trace[j].success
                 /\ b_executions = j

\* the second repair has left the source unchanged and the loop has
\* returned with a budget of three passes
C32_Witness ==
    /\ BlockReturned
    /\ b_max_iterations = 3
    /\ Len(b_trace) = 2
    /\ b_trace[1].changed
    /\ b_trace[2].diagnosed /\ ~b_trace[2].changed
    /\ block_result[1].iterations = 2

\* the number of executions max_iterations allows
BlockBudget == IF b_max_iterations > 0 THEN b_max_iterations ELSE 0

\* C37 as stated: the number of sandbox executions of a block is at most
\* max_iterations on every path.
C37_AsStated == b_executions <= BlockBudget

(* ---------------------------------------------------------------------- *)
(* Claims about the orchestrator loop                                     *)
(* ---------------------------------------------------------------------- *)

\* the number of executions max_iterations allows the orchestrator
OrchestratorBudget == IF o_max_iterations > 0 THEN o_max_iterations ELSE 0

\* C38 as stated: the orchestrator loop makes at most max_iterations
\* executions, and every execution whose process exits successfully is the
\* last one: the loop has ended with success = true and no repair was
\* requested for it, whatever the process wrote to its error stream.
C38_AsStated ==
    /\ o_executions <= OrchestratorBudget
    /\ \A j \in 1..Len(o_history) :
          o_history[j].success
              => /\ j = Len(o_history)
                 /\ o_pc = "done"
                 /\ o_result # None /\ o_result[1].success
                 /\ o_repairs = j - 1

====
